---- MODULE Spec2Model ----
(***************************************************************************)
(* A model of assembly/decoder.ts of as-msgpack: the SafeDecoder (a        *)
(* MessagePack reader returning Result values), the Decoder facade that    *)
(* unwraps them, the tag classifiers and the structural skip.              *)
(*                                                                         *)
(* A decoder is a cursor `pos` over a read-only byte buffer `buf`.  Every  *)
(* method is modelled as an operator from (buffer, position) to an outcome *)
(* record that carries the new position, and one action per method applies *)
(* it to the state.  An outcome is                                         *)
(*    st = "ok"    : Result.ok(value) (or a plain return value),           *)
(*    st = "err"   : Result.err(err),                                      *)
(*    st = "throw" : an exception left the method (in AssemblyScript: the  *)
(*                   program aborts).                                      *)
(* Integers are kept as big-endian byte sequences of their machine width,  *)
(* because the 64-bit values of the format do not fit the checker's        *)
(* integers; casts and comparisons are those of the machine types.         *)
(***************************************************************************)
EXTENDS Integers, Sequences, FiniteSets, TLC

VARIABLES buf, pos, halted, api, last

vars == <<buf, pos, halted, api, last>>

(***************************************************************************)
(* Bounds of the model.                                                    *)
(***************************************************************************)
MaxCount == 2
MaxDepth == 3

(***************************************************************************)
(* format.ts: the tag table (Format enum).                                 *)
(***************************************************************************)
Format ==
  [FIXMAP |-> 128, FIXARRAY |-> 144, FIXSTR |-> 160, NIL |-> 192,
   BIN8 |-> 196, BIN16 |-> 197, BIN32 |-> 198, FLOAT32 |-> 202,
   FLOAT64 |-> 203, UINT8 |-> 204, UINT16 |-> 205, UINT32 |-> 206,
   UINT64 |-> 207, INT8 |-> 208, INT16 |-> 209, INT32 |-> 210, INT64 |-> 211,
   FIXEXT1 |-> 212, FIXEXT2 |-> 213, FIXEXT4 |-> 214, FIXEXT8 |-> 215,
   FIXEXT16 |-> 216, STR8 |-> 217, STR16 |-> 218, STR32 |-> 219,
   ARRAY16 |-> 220, ARRAY32 |-> 221, MAP16 |-> 222, MAP32 |-> 223,
   NEGATIVE_FIXINT |-> 224, FOUR_LEAST_SIG_BITS_IN_BYTE |-> 15]

\* Format.FALSE and Format.TRUE
FormatFALSE == 194
FormatTRUE == 195

Byte == 0..255

(***************************************************************************)
(* Machine arithmetic on bytes and byte sequences.                         *)
(***************************************************************************)
RECURSIVE BitAnd(_, _)
\* u & m on non-negative integers, bit by bit
BitAnd(u, m) ==
  IF u = 0 \/ m = 0 THEN 0
  ELSE (u % 2) * (m % 2) + 2 * BitAnd(u \div 2, m \div 2)

\* u >> n on an unsigned value
ShiftRight(u, n) == u \div (2 ^ n)

\* n copies of byte x
Rep(x, n) == [k \in 1..n |-> x]

\* the last n bytes of s: a truncating cast to an n-byte integer type
Truncate(s, n) == SubSeq(s, Len(s) - n + 1, Len(s))

\* widening cast of an unsigned integer to n bytes
ZeroExtend(s, n) == Rep(0, n - Len(s)) \o s

\* widening cast of a signed (two's complement) integer to n bytes
SignExtend(s, n) == Rep(IF s[1] >= 128 THEN 255 ELSE 0, n - Len(s)) \o s

RECURSIVE LexLess(_, _)
\* s < t, most significant byte first, for sequences of the same length
LexLess(s, t) ==
  IF s = <<>> THEN FALSE
  ELSE IF s[1] # t[1] THEN s[1] < t[1]
  ELSE LexLess(Tail(s), Tail(t))

\* a <= b on unsigned integers of the same width
LeU(a, b) == a = b \/ LexLess(a, b)

\* two's complement order: flipping the sign bit turns it into unsigned order
FlipSign(s) == <<(s[1] + 128) % 256>> \o Tail(s)

\* a <= b on signed integers of the same width
LeS(a, b) == LeU(FlipSign(a), FlipSign(b))

\* value >= 0 on a signed integer
NonNegative(s) == s[1] < 128

\* i8/i16/i32/i64 MAX_VALUE and MIN_VALUE, u8/u16/u32 MAX_VALUE, as 64-bit values
SignedMax(bits) == SignExtend(<<127>> \o Rep(255, bits \div 8 - 1), 8)
SignedMin(bits) == SignExtend(<<128>> \o Rep(0, bits \div 8 - 1), 8)
UnsignedMax(bits) == ZeroExtend(Rep(255, bits \div 8), 8)

RECURSIVE BigEndian(_)
\* the number a short big-endian byte sequence stands for (lengths, counts)
BigEndian(s) ==
  IF s = <<>> THEN 0 ELSE BigEndian(SubSeq(s, 1, Len(s) - 1)) * 256 + s[Len(s)]

\* <i32> of a u32 given by its four bytes
ToI32(s) ==
  (IF s[1] >= 128 THEN s[1] - 256 ELSE s[1]) * 16777216 + BigEndian(Tail(s))

\* 2 * x in 32-bit signed arithmetic
TwiceI32(x) ==
  IF x >= 1073741824 THEN 2 * ((x - 1073741824) - 1073741824)
  ELSE IF x < -1073741824 THEN 2 * ((x + 1073741824) + 1073741824)
  ELSE 2 * x

(***************************************************************************)
(* Outcomes.                                                               *)
(***************************************************************************)
Ok(p, v) == [st |-> "ok", pos |-> p, value |-> v]
Err(p, e) == [st |-> "err", pos |-> p, err |-> e]
Throw(p, e) == [st |-> "throw", pos |-> p, err |-> e]

\* continue with F when r succeeded; otherwise r's failure is the outcome
\* (an exception passing through, or Result.err<T>(r.unwrapErr()))
Bind(r, F(_)) == IF r.st = "ok" THEN F(r) ELSE r

(***************************************************************************)
(* datareader.ts: the bounds-checked cursor.  A read that would pass the   *)
(* end throws and does not advance.                                        *)
(***************************************************************************)
\* the RangeError of a read past the end of the buffer
BufferUnderrun == [cls |-> "RangeError", msg |-> "buffer underrun"]

peekUint8(b, p) ==
  IF p + 1 <= Len(b) THEN Ok(p, b[p + 1]) ELSE Throw(p, BufferUnderrun)

getBytes(b, p, n) ==
  IF n >= 0 /\ p + n <= Len(b) THEN Ok(p + n, SubSeq(b, p + 1, p + n))
  ELSE Throw(p, BufferUnderrun)

discard(b, p, n) ==
  IF n >= 0 /\ p + n <= Len(b) THEN Ok(p + n, n) ELSE Throw(p, BufferUnderrun)

getUint8(b, p) == Bind(getBytes(b, p, 1), LAMBDA r : Ok(r.pos, r.value[1]))

\* getUint16/32/64 and getInt8/16/32/64: the raw big-endian bytes of the width
getWide(b, p, n) == getBytes(b, p, n)

\* getUint8/16/32 where the value is a length or a count
getLength(b, p, n) ==
  Bind(getBytes(b, p, n), LAMBDA r : Ok(r.pos, BigEndian(r.value)))

(***************************************************************************)
(* Tag classifiers.                                                        *)
(***************************************************************************)
isFloat32(u) == u = Format.FLOAT32

isFloat64(u) == u = Format.FLOAT64

isFixedInt(u) == ShiftRight(u, 7) = 0

isNegativeFixedInt(u) == BitAnd(u, 224) = Format.NEGATIVE_FIXINT

isFixedMap(u) == BitAnd(u, 240) = Format.FIXMAP

isFixedArray(u) == BitAnd(u, 240) = Format.FIXARRAY

\* a classifier that tests the top four bits, like its neighbours
isFixedStringTopFour(u) == BitAnd(u, 240) = Format.FIXSTR

isFixedString(u) == BitAnd(u, 224) = Format.FIXSTR

isNil(u) == u = Format.NIL

(***************************************************************************)
(* Errors.  An error is the Error object the code builds: its class, the   *)
(* fixed head of its message, and the values the message prints.           *)
(***************************************************************************)
E_INVALIDLENGTH == "Invalid length"

\* new Error(msg + "prefix = 0x.." + "; type = " + formatName(prefix))
BadPrefix(msg, prefix) == [cls |-> "Error", msg |-> msg, prefix |-> prefix]

\* new Error(msg + ": value = " + value + "; " + detail)
OutOfRange(msg, value, detail) ==
  [cls |-> "Error", msg |-> msg, value |-> value, detail |-> detail]

\* new RangeError(E_INVALIDLENGTH + ": prefix = 0x.." + "; type = " + ...)
InvalidLength(prefix) ==
  [cls |-> "RangeError", msg |-> E_INVALIDLENGTH, prefix |-> prefix]

\* new TypeError("invalid prefix, bad encoding for val: " + leadByte)
InvalidPrefix(prefix) ==
  [cls |-> "TypeError", msg |-> "invalid prefix, bad encoding for val", prefix |-> prefix]

\* Result.err<T>(result.unwrapErr()): the same error under another type
Propagate(r) == r

(***************************************************************************)
(* SafeDecoder: nil and bool.                                              *)
(***************************************************************************)
\* a reader that takes the byte and then looks at it, instead of peeking
isNextNilConsuming(b, p) ==
  Bind(getUint8(b, p), LAMBDA r : Ok(r.pos, r.value = Format.NIL))

isNextNil(b, p) ==
  Bind(peekUint8(b, p), LAMBDA r :
    IF r.value = Format.NIL
      THEN Bind(discard(b, p, 1), LAMBDA d : Ok(d.pos, TRUE))
      ELSE Ok(p, FALSE))

\* readBool handing the rejected tag back: the failure leaves the cursor where it was
readBoolRestoring(b, p) ==
  Bind(getUint8(b, p), LAMBDA r :
    IF r.value = FormatTRUE THEN Ok(r.pos, TRUE)
    ELSE IF r.value = FormatFALSE THEN Ok(r.pos, FALSE)
    ELSE Err(p, BadPrefix("bad value for bool", r.value)))

readBool(b, p) ==
  Bind(getUint8(b, p), LAMBDA r :
    IF r.value = FormatTRUE THEN Ok(r.pos, TRUE)
    ELSE IF r.value = FormatFALSE THEN Ok(r.pos, FALSE)
    ELSE Err(r.pos, BadPrefix("bad value for bool", r.value)))

(***************************************************************************)
(* SafeDecoder: the canonical 64-bit integer readers.                      *)
(***************************************************************************)
\* the cast to i64 without the check against i64.MAX_VALUE
readInt64OfUint64Unchecked(r) == Ok(r.pos, r.value)

\* case Format.UINT64 of readInt64: the value is checked against i64.MAX_VALUE
readInt64OfUint64(r) ==
  IF LeU(r.value, SignedMax(64)) THEN Ok(r.pos, r.value)
  ELSE Err(r.pos, OutOfRange("integer overflow", r.value, "type = i64"))

readInt64(b, p) ==
  Bind(getUint8(b, p), LAMBDA t :
    LET prefix == t.value
        q == t.pos
    IN  IF isFixedInt(prefix) THEN Ok(q, ZeroExtend(<<prefix>>, 8))
        ELSE IF isNegativeFixedInt(prefix) THEN Ok(q, SignExtend(<<prefix>>, 8))
        ELSE CASE prefix = Format.INT8 ->
                    Bind(getWide(b, q, 1), LAMBDA r : Ok(r.pos, SignExtend(r.value, 8)))
               [] prefix = Format.INT16 ->
                    Bind(getWide(b, q, 2), LAMBDA r : Ok(r.pos, SignExtend(r.value, 8)))
               [] prefix = Format.INT32 ->
                    Bind(getWide(b, q, 4), LAMBDA r : Ok(r.pos, SignExtend(r.value, 8)))
               [] prefix = Format.INT64 ->
                    Bind(getWide(b, q, 8), LAMBDA r : Ok(r.pos, r.value))
               [] prefix = Format.UINT8 ->
                    Bind(getWide(b, q, 1), LAMBDA r : Ok(r.pos, ZeroExtend(r.value, 8)))
               [] prefix = Format.UINT16 ->
                    Bind(getWide(b, q, 2), LAMBDA r : Ok(r.pos, ZeroExtend(r.value, 8)))
               [] prefix = Format.UINT32 ->
                    Bind(getWide(b, q, 4), LAMBDA r : Ok(r.pos, ZeroExtend(r.value, 8)))
               [] prefix = Format.UINT64 ->
                    Bind(getWide(b, q, 8), LAMBDA r : readInt64OfUint64(r))
               [] OTHER -> Err(q, BadPrefix("bad prefix for int", prefix)))

\* the cast to u64 without the check for a negative value
readUInt64OfIntUnchecked(r) == Ok(r.pos, SignExtend(r.value, 8))

\* cases Format.INT8 .. Format.INT64 of readUInt64: a negative value is an underflow
readUInt64OfInt(r) ==
  IF NonNegative(r.value) THEN Ok(r.pos, SignExtend(r.value, 8))
  ELSE Err(r.pos, OutOfRange("integer underflow", SignExtend(r.value, 8), "type = u64"))

readUInt64(b, p) ==
  Bind(getUint8(b, p), LAMBDA t :
    LET prefix == t.value
        q == t.pos
    IN  IF isFixedInt(prefix) THEN Ok(q, ZeroExtend(<<prefix>>, 8))
        ELSE IF isNegativeFixedInt(prefix)
          THEN Err(q, BadPrefix("bad prefix for unsigned int", prefix))
        ELSE CASE prefix = Format.UINT8 ->
                    Bind(getWide(b, q, 1), LAMBDA r : Ok(r.pos, ZeroExtend(r.value, 8)))
               [] prefix = Format.UINT16 ->
                    Bind(getWide(b, q, 2), LAMBDA r : Ok(r.pos, ZeroExtend(r.value, 8)))
               [] prefix = Format.UINT32 ->
                    Bind(getWide(b, q, 4), LAMBDA r : Ok(r.pos, ZeroExtend(r.value, 8)))
               [] prefix = Format.UINT64 ->
                    Bind(getWide(b, q, 8), LAMBDA r : Ok(r.pos, r.value))
               [] prefix = Format.INT8 ->
                    Bind(getWide(b, q, 1), LAMBDA r : readUInt64OfInt(r))
               [] prefix = Format.INT16 ->
                    Bind(getWide(b, q, 2), LAMBDA r : readUInt64OfInt(r))
               [] prefix = Format.INT32 ->
                    Bind(getWide(b, q, 4), LAMBDA r : readUInt64OfInt(r))
               [] prefix = Format.INT64 ->
                    Bind(getWide(b, q, 8), LAMBDA r : readUInt64OfInt(r))
               [] OTHER -> Err(q, BadPrefix("bad prefix for unsigned int", prefix)))

(***************************************************************************)
(* SafeDecoder: the narrower integer readers.                              *)
(***************************************************************************)
\* the body shared by readInt8/16/32: range check of the i64, then the cast
narrowSigned(r, bits, detail) ==
  IF r.st = "err" THEN Propagate(r)
  ELSE IF r.st = "throw" THEN r
  ELSE IF LeS(r.value, SignedMax(bits)) /\ LeS(SignedMin(bits), r.value)
    THEN Ok(r.pos, Truncate(r.value, bits \div 8))
  ELSE Err(r.pos, OutOfRange("integer overflow", r.value, detail))

readInt8(b, p) == narrowSigned(readInt64(b, p), 8, "bits = 8")

readInt16(b, p) == narrowSigned(readInt64(b, p), 16, "bits = 16")

readInt32(b, p) == narrowSigned(readInt64(b, p), 32, "bits = 32")

\* the body shared by readUInt8/16/32: range check of the u64, then the cast
narrowUnsigned(r, bits, detail) ==
  IF r.st = "err" THEN Propagate(r)
  ELSE IF r.st = "throw" THEN r
  ELSE IF LeU(r.value, UnsignedMax(bits))
    THEN Ok(r.pos, Truncate(r.value, bits \div 8))
  ELSE Err(r.pos, OutOfRange("unsigned integer overflow", r.value, detail))

readUInt8(b, p) == narrowUnsigned(readUInt64(b, p), 8, "bits = 8")

readUInt16(b, p) == narrowUnsigned(readUInt64(b, p), 16, "bits = 16")

readUInt32(b, p) == narrowUnsigned(readUInt64(b, p), 32, "bits = 32")

(***************************************************************************)
(* SafeDecoder: floats.  A float is kept as its IEEE-754 bytes; the        *)
(* rounding of a narrowing and the widening are left symbolic.             *)
(***************************************************************************)
\* <f64>f32.MAX_VALUE = 0x47EFFFFFE0000000
F32MaxAsF64 == <<71, 239, 255, 255, 224, 0, 0, 0>>

\* f32.MAX_VALUE = 0x7F7FFFFF
F32Max == <<127, 127, 255, 255>>

\* an f64 that is a NaN: exponent all ones, fraction not zero
IsNaN64(v) ==
  /\ v[1] % 128 = 127
  /\ v[2] >= 240
  /\ <<v[2] % 16>> \o SubSeq(v, 3, 8) # <<0, 0, 0, 0, 0, 0, 0>>

\* abs(F32_MAX - value) <= f32.EPSILON: doubles near F32_MAX are 2^75 apart,
\* so the difference is that small only when it is zero
NearF32Max(v) == v = F32MaxAsF64

\* F32_MAX - value < 0: a positive value (or +inf) above F32_MAX; never a NaN
AboveF32Max(v) == v[1] < 128 /\ ~IsNaN64(v) /\ LexLess(F32MaxAsF64, v)

readFloat32(b, p) ==
  Bind(getUint8(b, p), LAMBDA t :
    IF isFloat32(t.value)
      THEN Bind(getWide(b, t.pos, 4), LAMBDA r : Ok(r.pos, <<"f32", r.value>>))
    ELSE IF isFloat64(t.value)
      THEN Bind(getWide(b, t.pos, 8), LAMBDA r :
             IF NearF32Max(r.value) THEN Ok(r.pos, <<"f32", F32Max>>)
             ELSE IF AboveF32Max(r.value)
               THEN Err(r.pos, OutOfRange("float overflow", r.value, "type = f32"))
             ELSE Ok(r.pos, <<"f32 of f64", r.value>>))
    ELSE Err(t.pos, BadPrefix("bad prefix for float", t.value)))

readFloat64(b, p) ==
  Bind(getUint8(b, p), LAMBDA t :
    IF isFloat64(t.value)
      THEN Bind(getWide(b, t.pos, 8), LAMBDA r : Ok(r.pos, <<"f64", r.value>>))
    ELSE IF isFloat32(t.value)
      THEN Bind(getWide(b, t.pos, 4), LAMBDA r : Ok(r.pos, <<"f64 of f32", r.value>>))
    ELSE Err(t.pos, BadPrefix("bad prefix for float", t.value)))

(***************************************************************************)
(* SafeDecoder: strings, binary, container sizes.  Lengths and counts are  *)
(* numbers (all those of the model's buffers are below 2^31).              *)
(***************************************************************************)
readStringLength(b, p) ==
  Bind(getUint8(b, p), LAMBDA t :
    LET leadByte == t.value
    IN  IF isFixedString(leadByte) THEN Ok(t.pos, BitAnd(leadByte, 31))
        ELSE IF isFixedArray(leadByte)
          THEN Ok(t.pos, BitAnd(leadByte, Format.FOUR_LEAST_SIG_BITS_IN_BYTE))
        ELSE CASE leadByte = Format.STR8 -> getLength(b, t.pos, 1)
               [] leadByte = Format.STR16 -> getLength(b, t.pos, 2)
               [] leadByte = Format.STR32 -> getLength(b, t.pos, 4)
               [] OTHER -> Err(t.pos, InvalidLength(leadByte)))

\* String.UTF8.decode of the bytes read
readString(b, p) ==
  Bind(readStringLength(b, p), LAMBDA result :
    Bind(getBytes(b, result.pos, result.value), LAMBDA r :
      Ok(r.pos, <<"utf8", r.value>>)))

readBinLength(b, p) ==
  Bind(isNextNil(b, p), LAMBDA nil :
    IF nil.value THEN Ok(nil.pos, 0)
    ELSE Bind(getUint8(b, nil.pos), LAMBDA t :
      LET leadByte == t.value
      IN  IF isFixedArray(leadByte)
            THEN Ok(t.pos, BitAnd(leadByte, Format.FOUR_LEAST_SIG_BITS_IN_BYTE))
          ELSE CASE leadByte = Format.BIN8 -> getLength(b, t.pos, 1)
                 [] leadByte = Format.BIN16 -> getLength(b, t.pos, 2)
                 [] leadByte = Format.BIN32 -> getLength(b, t.pos, 4)
                 [] OTHER -> Err(t.pos, InvalidLength(leadByte))))

readByteArray(b, p) ==
  Bind(readBinLength(b, p), LAMBDA result :
    Bind(getBytes(b, result.pos, result.value), LAMBDA r :
      Ok(r.pos, <<"bytes", r.value>>)))

readArraySize(b, p) ==
  Bind(getUint8(b, p), LAMBDA t :
    LET leadByte == t.value
    IN  IF isFixedArray(leadByte)
          THEN Ok(t.pos, BitAnd(leadByte, Format.FOUR_LEAST_SIG_BITS_IN_BYTE))
        ELSE IF leadByte = Format.ARRAY16 THEN getLength(b, t.pos, 2)
        ELSE IF leadByte = Format.ARRAY32 THEN getLength(b, t.pos, 4)
        ELSE IF leadByte = Format.NIL THEN Ok(t.pos, 0)
        ELSE Err(t.pos, InvalidLength(leadByte)))

\* a map size reader with the nil compatibility of readArraySize
readMapSizeNilAsEmpty(b, p) ==
  Bind(getUint8(b, p), LAMBDA t :
    LET leadByte == t.value
    IN  IF isFixedMap(leadByte)
          THEN Ok(t.pos, BitAnd(leadByte, Format.FOUR_LEAST_SIG_BITS_IN_BYTE))
        ELSE IF leadByte = Format.MAP16 THEN getLength(b, t.pos, 2)
        ELSE IF leadByte = Format.MAP32 THEN getLength(b, t.pos, 4)
        ELSE IF leadByte = Format.NIL THEN Ok(t.pos, 0)
        ELSE Err(t.pos, InvalidLength(leadByte)))

readMapSize(b, p) ==
  Bind(getUint8(b, p), LAMBDA t :
    LET leadByte == t.value
    IN  IF isFixedMap(leadByte)
          THEN Ok(t.pos, BitAnd(leadByte, Format.FOUR_LEAST_SIG_BITS_IN_BYTE))
        ELSE IF leadByte = Format.MAP16 THEN getLength(b, t.pos, 2)
        ELSE IF leadByte = Format.MAP32 THEN getLength(b, t.pos, 4)
        ELSE Err(t.pos, InvalidLength(leadByte)))

(***************************************************************************)
(* SafeDecoder: the structural skip.                                       *)
(***************************************************************************)
\* this.reader.discard(n) in getSize: nothing is left to skip afterwards
discardPayload(b, p, n) == Bind(discard(b, p, n), LAMBDA d : Ok(d.pos, 0))

\* this.reader.discard(<i32>this.reader.getUintN()) in getSize
discardSized(b, p, n) ==
  Bind(getWide(b, p, n), LAMBDA r :
    discardPayload(b, r.pos, ToI32(ZeroExtend(r.value, 4))))

\* a count of pairs taken for a count of objects
childCountOfPairs(b, p, n, factor) ==
  Bind(getWide(b, p, n), LAMBDA r : Ok(r.pos, ToI32(ZeroExtend(r.value, 4))))

\* objectsToDiscard = factor * <i32>this.reader.getUintN(), factor 1 or 2
childCount(b, p, n, factor) ==
  Bind(getWide(b, p, n), LAMBDA r :
    LET count == ToI32(ZeroExtend(r.value, 4))
    IN  Ok(r.pos, IF factor = 2 THEN TwiceI32(count) ELSE count))

getSize(b, p) ==
  Bind(getUint8(b, p), LAMBDA t :
    LET leadByte == t.value
        q == t.pos
    IN  IF isNegativeFixedInt(leadByte) THEN Ok(q, 0)
        ELSE IF isFixedInt(leadByte) THEN Ok(q, 0)
        ELSE IF isFixedString(leadByte)
          THEN discardPayload(b, q, BitAnd(leadByte, 31))
        ELSE IF isFixedArray(leadByte)
          THEN Ok(q, BitAnd(leadByte, Format.FOUR_LEAST_SIG_BITS_IN_BYTE))
        ELSE IF isFixedMap(leadByte)
          THEN Ok(q, 2 * BitAnd(leadByte, Format.FOUR_LEAST_SIG_BITS_IN_BYTE))
        ELSE CASE leadByte = Format.NIL -> Ok(q, 0)
               [] leadByte = FormatTRUE -> Ok(q, 0)
               [] leadByte = FormatFALSE -> Ok(q, 0)
               [] leadByte = Format.BIN8 -> discardSized(b, q, 1)
               [] leadByte = Format.BIN16 -> discardSized(b, q, 2)
               [] leadByte = Format.BIN32 -> discardSized(b, q, 4)
               [] leadByte = Format.FLOAT32 -> discardPayload(b, q, 4)
               [] leadByte = Format.FLOAT64 -> discardPayload(b, q, 8)
               [] leadByte = Format.UINT8 -> discardPayload(b, q, 1)
               [] leadByte = Format.UINT16 -> discardPayload(b, q, 2)
               [] leadByte = Format.UINT32 -> discardPayload(b, q, 4)
               [] leadByte = Format.UINT64 -> discardPayload(b, q, 8)
               [] leadByte = Format.INT8 -> discardPayload(b, q, 1)
               [] leadByte = Format.INT16 -> discardPayload(b, q, 2)
               [] leadByte = Format.INT32 -> discardPayload(b, q, 4)
               [] leadByte = Format.INT64 -> discardPayload(b, q, 8)
               [] leadByte = Format.FIXEXT1 -> discardPayload(b, q, 2)
               [] leadByte = Format.FIXEXT2 -> discardPayload(b, q, 3)
               [] leadByte = Format.FIXEXT4 -> discardPayload(b, q, 5)
               [] leadByte = Format.FIXEXT8 -> discardPayload(b, q, 9)
               [] leadByte = Format.FIXEXT16 -> discardPayload(b, q, 17)
               [] leadByte = Format.STR8 -> discardSized(b, q, 1)
               [] leadByte = Format.STR16 -> discardSized(b, q, 2)
               [] leadByte = Format.STR32 -> discardSized(b, q, 4)
               [] leadByte = Format.ARRAY16 -> childCount(b, q, 2, 1)
               [] leadByte = Format.ARRAY32 -> childCount(b, q, 4, 1)
               [] leadByte = Format.MAP16 -> childCount(b, q, 2, 2)
               [] leadByte = Format.MAP32 -> childCount(b, q, 4, 2)
               [] OTHER -> Throw(q, InvalidPrefix(leadByte)))

RECURSIVE skip(_, _), skipObjects(_, _, _)
skip(b, p) ==
  Bind(getSize(b, p), LAMBDA g : skipObjects(b, g.pos, g.value))

\* the while loop of skip: numberOfObjectsToDiscard objects are still to skip
skipObjects(b, p, numberOfObjectsToDiscard) ==
  IF numberOfObjectsToDiscard > 0
    THEN Bind(skip(b, p), LAMBDA s :
           skipObjects(b, s.pos, numberOfObjectsToDiscard - 1))
    ELSE Ok(p, "void")

(***************************************************************************)
(* SafeDecoder: generic containers.  A caller's element function fn is a   *)
(* name and its behaviour over the buffer: fn.run[p] is the outcome of     *)
(* fn(this, i) with the cursor at p.  Each outcome of readArray and        *)
(* readMap carries `calls`, the log of the calls made to the caller's      *)
(* functions: which function, the extra arguments passed after the         *)
(* decoder, and the cursor at the call.                                    *)
(***************************************************************************)
Logged(r, calls) == [calls |-> calls] @@ r

\* continue with F when r succeeded; otherwise return r's failure at once
\* (Result.err<T>(r.unwrapErr()), or the exception passing through)
OrReturn(r, calls, F(_)) ==
  IF r.st = "ok" THEN F(r)
  ELSE IF r.st = "err" THEN Logged(Propagate(r), calls)
  ELSE Logged(r, calls)

\* continue with F unless an exception passes through the method
OrThrow(r, calls, F(_)) == IF r.st = "throw" THEN Logged(r, calls) ELSE F(r)

Invocation(fn, args, p) == [fn |-> fn.name, args |-> args, at |-> p]

\* a map that keeps the first value set for a key
MapSetKeepFirst(m, key, value) ==
  IF \E k \in 1..Len(m) : m[k][1] = key THEN m ELSE Append(m, <<key, value>>)

\* Map.set(key, value) on a map kept as its entries in insertion order
MapSet(m, key, value) ==
  IF \E k \in 1..Len(m) : m[k][1] = key
    THEN [k \in 1..Len(m) |-> IF m[k][1] = key THEN <<key, value>> ELSE m[k]]
    ELSE Append(m, <<key, value>>)

\* the array with the item pushed when it was decoded, unchanged when not
PushDecoded(a, item) == IF item.st = "ok" THEN Append(a, item.value) ELSE a

RECURSIVE readArrayLoopLenient(_, _, _, _, _, _, _)
\* a loop that drops an element that fails to decode and goes on to the next
readArrayLoopLenient(b, p, fn, i, size, a, calls) ==
  IF i < size
    THEN OrThrow(fn.run[p], Append(calls, Invocation(fn, <<i>>, p)),
           LAMBDA itemResult :
             readArrayLoopLenient(b, itemResult.pos, fn, i + 1, size,
                                  PushDecoded(a, itemResult),
                                  Append(calls, Invocation(fn, <<i>>, p))))
    ELSE Logged(Ok(p, a), calls)

RECURSIVE readArrayLoop(_, _, _, _, _, _, _)
\* the for loop of readArray, at index i with the array a built so far
readArrayLoop(b, p, fn, i, size, a, calls) ==
  IF i < size
    THEN OrReturn(fn.run[p], Append(calls, Invocation(fn, <<i>>, p)),
           LAMBDA itemResult :
             readArrayLoop(b, itemResult.pos, fn, i + 1, size,
                           Append(a, itemResult.value),
                           Append(calls, Invocation(fn, <<i>>, p))))
    ELSE Logged(Ok(p, a), calls)

readArray(b, p, fn) ==
  OrReturn(readArraySize(b, p), <<>>, LAMBDA result :
    readArrayLoop(b, result.pos, fn, 0, result.value, <<>>, <<>>))

RECURSIVE readMapLoop(_, _, _, _, _, _, _, _)
\* the for loop of readMap, at pair i with the map m built so far
readMapLoop(b, p, keyFn, valueFn, i, size, m, calls) ==
  IF i < size
    THEN OrReturn(keyFn.run[p], Append(calls, Invocation(keyFn, <<i>>, p)),
           LAMBDA keyResult :
             OrReturn(valueFn.run[keyResult.pos],
                      calls \o <<Invocation(keyFn, <<i>>, p),
                                 Invocation(valueFn, <<i>>, keyResult.pos)>>,
               LAMBDA valueResult :
                 readMapLoop(b, valueResult.pos, keyFn, valueFn, i + 1, size,
                             MapSet(m, keyResult.value, valueResult.value),
                             calls \o <<Invocation(keyFn, <<i>>, p),
                                        Invocation(valueFn, <<i>>, keyResult.pos)>>)))
    ELSE Logged(Ok(p, m), calls)

readMap(b, p, keyFn, valueFn) ==
  OrReturn(readMapSize(b, p), <<>>, LAMBDA result :
    readMapLoop(b, result.pos, keyFn, valueFn, 0, result.value, <<>>, <<>>))

readNullableArray(b, p, fn) ==
  OrReturn(isNextNil(b, p), <<>>, LAMBDA nil :
    IF nil.value THEN Logged(Ok(nil.pos, "null"), <<>>)
    ELSE readArray(b, p, fn))

readNullableMap(b, p, keyFn, valueFn) ==
  OrReturn(isNextNil(b, p), <<>>, LAMBDA nil :
    IF nil.value THEN Logged(Ok(nil.pos, "null"), <<>>)
    ELSE readMap(b, p, keyFn, valueFn))

(***************************************************************************)
(* The element functions a caller supplies.                                *)
(***************************************************************************)
\* (decoder, i) => decoder.readAny(): decodes whatever value comes next with
\* the read operation matching its tag, and keeps nothing of it
\* the outcome of a read with its value dropped
Forget(r) ==
  IF r.st = "ok" THEN Ok(r.pos, "any")
  ELSE IF r.st = "err" THEN Err(r.pos, r.err)
  ELSE Throw(r.pos, r.err)

\* the read operation matching the tag at q, with fn for the entries of a container
readMatching(b, q, tag, fn) ==
  IF isNil(tag) THEN isNextNil(b, q)
  ELSE IF tag \in {FormatTRUE, FormatFALSE} THEN readBool(b, q)
  ELSE IF \/ isFixedInt(tag) \/ isNegativeFixedInt(tag)
          \/ tag \in {Format.UINT8, Format.UINT16, Format.UINT32, Format.UINT64}
          \/ tag \in {Format.INT8, Format.INT16, Format.INT32, Format.INT64} THEN readInt64(b, q)
  ELSE IF isFloat32(tag) \/ isFloat64(tag) THEN readFloat64(b, q)
  ELSE IF isFixedString(tag) \/ tag \in {Format.STR8, Format.STR16, Format.STR32} THEN readString(b, q)
  ELSE IF tag \in {Format.BIN8, Format.BIN16, Format.BIN32} THEN readByteArray(b, q)
  ELSE IF isFixedArray(tag) \/ tag \in {Format.ARRAY16, Format.ARRAY32} THEN readArray(b, q, fn)
  ELSE IF isFixedMap(tag) \/ tag \in {Format.MAP16, Format.MAP32} THEN readMap(b, q, fn, fn)
  ELSE Err(q, BadPrefix("no read operation for", tag))

readAnyFn(b) ==
  LET run[q \in 0..Len(b)] ==
        Bind(peekUint8(b, q), LAMBDA t :
          Forget(readMatching(b, q, t.value, [name |-> "readAny", run |-> run])))
  IN  [name |-> "readAny", run |-> run]

readAny(b, p) == readAnyFn(b).run[p]

\* (decoder, i) => decoder.<name>() over buffer b
Fn(name, b) ==
  CASE name = "readInt64" -> [name |-> name, run |-> [q \in 0..Len(b) |-> readInt64(b, q)]]
    [] name = "readUInt8" -> [name |-> name, run |-> [q \in 0..Len(b) |-> readUInt8(b, q)]]
    [] name = "readBool" -> [name |-> name, run |-> [q \in 0..Len(b) |-> readBool(b, q)]]
    [] name = "readString" -> [name |-> name, run |-> [q \in 0..Len(b) |-> readString(b, q)]]
    [] name = "readAny" -> readAnyFn(b)

(***************************************************************************)
(* Decoder: the facade.  Each method unwraps the SafeDecoder's Result;     *)
(* unwrap of a failure throws (result.ts).                                 *)
(***************************************************************************)
unwrap(r) == IF r.st = "err" THEN Throw(r.pos, r.err) ELSE r

Decoder_isNextNil(b, p) == isNextNil(b, p)

Decoder_readBool(b, p) == unwrap(readBool(b, p))

Decoder_readInt8(b, p) == unwrap(readInt8(b, p))

Decoder_readInt16(b, p) == unwrap(readInt16(b, p))

Decoder_readInt32(b, p) == unwrap(readInt32(b, p))

Decoder_readInt64(b, p) == unwrap(readInt64(b, p))

Decoder_readUInt8(b, p) == unwrap(readUInt8(b, p))

Decoder_readUInt16(b, p) == unwrap(readUInt16(b, p))

Decoder_readUInt32(b, p) == unwrap(readUInt32(b, p))

Decoder_readUInt64(b, p) == unwrap(readUInt64(b, p))

Decoder_readFloat32(b, p) == unwrap(readFloat32(b, p))

Decoder_readFloat64(b, p) == unwrap(readFloat64(b, p))

Decoder_readString(b, p) == unwrap(readString(b, p))

Decoder_readStringLength(b, p) == unwrap(readStringLength(b, p))

Decoder_readBinLength(b, p) == unwrap(readBinLength(b, p))

Decoder_readByteArray(b, p) == unwrap(readByteArray(b, p))

Decoder_readArraySize(b, p) == unwrap(readArraySize(b, p))

Decoder_readMapSize(b, p) == unwrap(readMapSize(b, p))

Decoder_getSize(b, p) == getSize(b, p)

Decoder_skip(b, p) == skip(b, p)

\* an element function written against the Decoder: the same reads, unwrapped
Decoder_Fn(name, b) ==
  LET fn == Fn(name, b)
  IN  [name |-> name, run |-> [q \in 0..Len(b) |-> unwrap(fn.run[q])]]

RECURSIVE Decoder_readArrayLoop(_, _, _, _, _, _, _)
\* the for loop of Decoder.readArray: fn is called with the decoder alone
Decoder_readArrayLoop(b, p, fn, i, size, a, calls) ==
  IF i < size
    THEN OrThrow(fn.run[p], Append(calls, Invocation(fn, <<>>, p)),
           LAMBDA item :
             Decoder_readArrayLoop(b, item.pos, fn, i + 1, size,
                                   Append(a, item.value),
                                   Append(calls, Invocation(fn, <<>>, p))))
    ELSE Logged(Ok(p, a), calls)

Decoder_readArray(b, p, fn) ==
  OrThrow(Decoder_readArraySize(b, p), <<>>, LAMBDA size :
    Decoder_readArrayLoop(b, size.pos, fn, 0, size.value, <<>>, <<>>))

RECURSIVE Decoder_readMapLoop(_, _, _, _, _, _, _, _)
\* the for loop of Decoder.readMap
Decoder_readMapLoop(b, p, keyFn, valueFn, i, size, m, calls) ==
  IF i < size
    THEN OrThrow(keyFn.run[p], Append(calls, Invocation(keyFn, <<i>>, p)),
           LAMBDA key :
             OrThrow(valueFn.run[key.pos],
                     calls \o <<Invocation(keyFn, <<i>>, p),
                                Invocation(valueFn, <<i>>, key.pos)>>,
               LAMBDA value :
                 Decoder_readMapLoop(b, value.pos, keyFn, valueFn, i + 1, size,
                                     MapSet(m, key.value, value.value),
                                     calls \o <<Invocation(keyFn, <<i>>, p),
                                                Invocation(valueFn, <<i>>, key.pos)>>)))
    ELSE Logged(Ok(p, m), calls)

Decoder_readMap(b, p, keyFn, valueFn) ==
  OrThrow(Decoder_readMapSize(b, p), <<>>, LAMBDA size :
    Decoder_readMapLoop(b, size.pos, keyFn, valueFn, 0, size.value, <<>>, <<>>))

Decoder_readNullableArray(b, p, fn) ==
  OrThrow(Decoder_isNextNil(b, p), <<>>, LAMBDA nil :
    IF nil.value THEN Logged(Ok(nil.pos, "null"), <<>>)
    ELSE Decoder_readArray(b, p, fn))

Decoder_readNullableMap(b, p, keyFn, valueFn) ==
  OrThrow(Decoder_isNextNil(b, p), <<>>, LAMBDA nil :
    IF nil.value THEN Logged(Ok(nil.pos, "null"), <<>>)
    ELSE Decoder_readMap(b, p, keyFn, valueFn))

(***************************************************************************)
(* The buffers a decoder is constructed over: every single tag byte,       *)
(* integers at the boundaries of every width, one encoding of every scalar *)
(* form, flat arrays and maps of up to MaxCount entries, and containers    *)
(* nested up to MaxDepth deep.                                             *)
(***************************************************************************)
RECURSIVE Flatten(_)
\* the concatenation of a sequence of byte sequences
Flatten(ss) == IF ss = <<>> THEN <<>> ELSE ss[1] \o Flatten(Tail(ss))

U16(n) == <<n \div 256, n % 256>>
U32(n) == <<0, 0>> \o U16(n)

TagBuffers == {<<t>> : t \in Byte}

\* the four extreme bit patterns of a k-byte integer
Extremes(k) ==
  {Rep(0, k), <<127>> \o Rep(255, k - 1), <<128>> \o Rep(0, k - 1), Rep(255, k)}

\* w-byte payloads around every boundary of the widths up to w
Payloads(w) ==
  UNION {{ZeroExtend(e, w), SignExtend(e, w)} : e \in UNION {Extremes(k) : k \in {k \in {1, 2, 4, 8} : k <= w}}}
    \cup {ZeroExtend(<<1>> \o Rep(0, k), w) : k \in {k \in {1, 2, 4} : k < w}}
    \cup {Rep(255, w - k) \o <<127>> \o Rep(255, k - 1) : k \in {k \in {1, 2, 4} : k < w}}

IntegerBuffers ==
  UNION {UNION {{<<Format.UINT8 + j>> \o x, <<Format.INT8 + j>> \o x} : x \in Payloads(2 ^ j)}
           : j \in 0..3}

FloatBuffers ==
  {<<Format.FLOAT32, 63, 128, 0, 0>>}
    \cup {<<Format.FLOAT64>> \o x : x \in {<<63, 240, 0, 0, 0, 0, 0, 0>>, F32MaxAsF64,
                                     <<71, 240, 0, 0, 0, 0, 0, 0>>,
                                     <<127, 248, 0, 0, 0, 0, 0, 0>>,
                                     <<255, 239, 255, 255, 255, 255, 255, 255>>}}

StringBuffers ==
  {<<Format.FIXSTR>>, <<Format.FIXSTR + 2, 97, 98>>, <<Format.STR8, 1, 97>>, <<Format.STR8, 0>>,
   <<Format.STR16>> \o U16(1) \o <<97>>, <<Format.STR32>> \o U32(2) \o <<97, 98>>,
   <<Format.BIN8, 1, 7>>, <<Format.BIN8, 0>>, <<Format.BIN16>> \o U16(2) \o <<7, 8>>,
   <<Format.BIN32>> \o U32(1) \o <<7>>}

FixextBuffers == {<<Format.FIXEXT1 + j, 5>> \o Rep(0, 2 ^ j) : j \in 0..4}

\* ext8, ext16 and ext32, each with one byte of data of type 5
ExtBuffers == {<<199, 1, 5, 0>>, <<200, 0, 1, 5, 0>>, <<201, 0, 0, 0, 1, 5, 0>>}

ElementLeaves == {<<1>>, <<Format.NIL>>, <<Format.FIXSTR + 1, 97>>, <<FormatTRUE>>}
KeyLeaves == {<<1>>, <<Format.FIXSTR + 1, 97>>}
ValueLeaves == {<<2>>, <<255>>}

ArrayHeaders(n) == {<<Format.FIXARRAY + n>>, <<Format.ARRAY16>> \o U16(n), <<Format.ARRAY32>> \o U32(n)}
MapHeaders(n) == {<<Format.FIXMAP + n>>, <<Format.MAP16>> \o U16(n), <<Format.MAP32>> \o U32(n)}

ArrayBuffers ==
  UNION {{h \o Flatten(e) : h \in ArrayHeaders(n), e \in [1..n -> ElementLeaves]}
           : n \in 0..MaxCount}

MapBuffers ==
  UNION {{h \o Flatten([k \in 1..n |-> e[k][1] \o e[k][2]])
            : h \in MapHeaders(n), e \in [1..n -> KeyLeaves \X ValueLeaves]}
           : n \in 0..MaxCount}

RECURSIVE Nested(_, _)
\* a fixint wrapped in d containers of one entry each
Nested(d, kind) ==
  IF d = 0 THEN <<1>>
  ELSE CASE kind = "array" -> <<Format.FIXARRAY + 1>> \o Nested(d - 1, kind)
         [] kind = "map" -> <<Format.FIXMAP + 1, 1>> \o Nested(d - 1, kind)
         [] kind = "mixed" ->
              CASE d % 3 = 0 -> <<Format.ARRAY16>> \o U16(1) \o Nested(d - 1, kind)
                [] d % 3 = 1 -> <<Format.FIXMAP + 1, 1>> \o Nested(d - 1, kind)
                [] d % 3 = 2 -> <<Format.MAP32>> \o U32(1) \o <<Format.FIXSTR + 1, 97>> \o Nested(d - 1, kind)

NestedBuffers == {Nested(d, kind) : d \in 1..MaxDepth, kind \in {"array", "map", "mixed"}}

\* map16 of two pairs whose values are empty fixarrays
ScenarioBuffers == {<<Format.MAP16>> \o U16(2) \o <<1, Format.FIXARRAY, 2, Format.FIXARRAY>>}

\* complete encodings of one value that skip is specified for
EncodedValues ==
  {<<Format.NIL>>, <<FormatFALSE>>, <<FormatTRUE>>} \cup {<<t>> : t \in 0..127 \cup 224..255}
    \cup IntegerBuffers \cup FloatBuffers \cup StringBuffers \cup FixextBuffers
    \cup ArrayBuffers \cup MapBuffers \cup NestedBuffers \cup ScenarioBuffers

Buffers == TagBuffers \cup ExtBuffers \cup EncodedValues

ElementFns == {"readInt64", "readString", "readBool", "readAny"}
KeyFns == {"readInt64", "readString"}
ValueFns == {"readInt64", "readUInt8"}

(***************************************************************************)
(* The state machine: a decoder is constructed over a buffer, and then any *)
(* of its methods is called, one after the other, until one throws.        *)
(***************************************************************************)
Init ==
  /\ buf \in Buffers
  /\ pos = 0
  /\ halted = FALSE
  /\ api = "SafeDecoder"
  /\ last = [op |-> "new", fns |-> <<>>, start |-> 0, res |-> Ok(0, "void")]

\* a method call with outcome r: the cursor moves, a throw ends the program
Step(class, op, fns, r) ==
  /\ ~halted
  /\ api = class
  /\ last' = [op |-> op, fns |-> fns, start |-> pos, res |-> r]
  /\ pos' = r.pos
  /\ halted' = (r.st = "throw")
  /\ UNCHANGED <<buf, api>>

IsNextNil == Step("SafeDecoder", "isNextNil", <<>>, isNextNil(buf, pos))
ReadBool == Step("SafeDecoder", "readBool", <<>>, readBool(buf, pos))
ReadInt8 == Step("SafeDecoder", "readInt8", <<>>, readInt8(buf, pos))
ReadInt16 == Step("SafeDecoder", "readInt16", <<>>, readInt16(buf, pos))
ReadInt32 == Step("SafeDecoder", "readInt32", <<>>, readInt32(buf, pos))
ReadInt64 == Step("SafeDecoder", "readInt64", <<>>, readInt64(buf, pos))
ReadUInt8 == Step("SafeDecoder", "readUInt8", <<>>, readUInt8(buf, pos))
ReadUInt16 == Step("SafeDecoder", "readUInt16", <<>>, readUInt16(buf, pos))
ReadUInt32 == Step("SafeDecoder", "readUInt32", <<>>, readUInt32(buf, pos))
ReadUInt64 == Step("SafeDecoder", "readUInt64", <<>>, readUInt64(buf, pos))
ReadFloat32 == Step("SafeDecoder", "readFloat32", <<>>, readFloat32(buf, pos))
ReadFloat64 == Step("SafeDecoder", "readFloat64", <<>>, readFloat64(buf, pos))
ReadString == Step("SafeDecoder", "readString", <<>>, readString(buf, pos))
ReadStringLength == Step("SafeDecoder", "readStringLength", <<>>, readStringLength(buf, pos))
ReadBinLength == Step("SafeDecoder", "readBinLength", <<>>, readBinLength(buf, pos))
ReadByteArray == Step("SafeDecoder", "readByteArray", <<>>, readByteArray(buf, pos))
ReadArraySize == Step("SafeDecoder", "readArraySize", <<>>, readArraySize(buf, pos))
ReadMapSize == Step("SafeDecoder", "readMapSize", <<>>, readMapSize(buf, pos))
GetSize == Step("SafeDecoder", "getSize", <<>>, getSize(buf, pos))
Skip == Step("SafeDecoder", "skip", <<>>, skip(buf, pos))
ReadArray ==
  \E fn \in ElementFns :
    Step("SafeDecoder", "readArray", <<fn>>, readArray(buf, pos, Fn(fn, buf)))
ReadNullableArray ==
  \E fn \in ElementFns :
    Step("SafeDecoder", "readNullableArray", <<fn>>, readNullableArray(buf, pos, Fn(fn, buf)))
ReadMap ==
  \E keyFn \in KeyFns, valueFn \in ValueFns :
    Step("SafeDecoder", "readMap", <<keyFn, valueFn>>, readMap(buf, pos, Fn(keyFn, buf), Fn(valueFn, buf)))
ReadNullableMap ==
  \E keyFn \in KeyFns, valueFn \in ValueFns :
    Step("SafeDecoder", "readNullableMap", <<keyFn, valueFn>>,
         readNullableMap(buf, pos, Fn(keyFn, buf), Fn(valueFn, buf)))

SafeDecoderNext ==
  \/ IsNextNil \/ ReadBool
  \/ ReadInt8 \/ ReadInt16 \/ ReadInt32 \/ ReadInt64
  \/ ReadUInt8 \/ ReadUInt16 \/ ReadUInt32 \/ ReadUInt64
  \/ ReadFloat32 \/ ReadFloat64
  \/ ReadString \/ ReadStringLength \/ ReadBinLength \/ ReadByteArray
  \/ ReadArraySize \/ ReadMapSize
  \/ GetSize \/ Skip
  \/ ReadArray \/ ReadNullableArray \/ ReadMap \/ ReadNullableMap

DecoderIsNextNil == Step("Decoder", "isNextNil", <<>>, Decoder_isNextNil(buf, pos))
DecoderReadBool == Step("Decoder", "readBool", <<>>, Decoder_readBool(buf, pos))
DecoderReadInt8 == Step("Decoder", "readInt8", <<>>, Decoder_readInt8(buf, pos))
DecoderReadInt16 == Step("Decoder", "readInt16", <<>>, Decoder_readInt16(buf, pos))
DecoderReadInt32 == Step("Decoder", "readInt32", <<>>, Decoder_readInt32(buf, pos))
DecoderReadInt64 == Step("Decoder", "readInt64", <<>>, Decoder_readInt64(buf, pos))
DecoderReadUInt8 == Step("Decoder", "readUInt8", <<>>, Decoder_readUInt8(buf, pos))
DecoderReadUInt16 == Step("Decoder", "readUInt16", <<>>, Decoder_readUInt16(buf, pos))
DecoderReadUInt32 == Step("Decoder", "readUInt32", <<>>, Decoder_readUInt32(buf, pos))
DecoderReadUInt64 == Step("Decoder", "readUInt64", <<>>, Decoder_readUInt64(buf, pos))
DecoderReadFloat32 == Step("Decoder", "readFloat32", <<>>, Decoder_readFloat32(buf, pos))
DecoderReadFloat64 == Step("Decoder", "readFloat64", <<>>, Decoder_readFloat64(buf, pos))
DecoderReadString == Step("Decoder", "readString", <<>>, Decoder_readString(buf, pos))
DecoderReadStringLength ==
  Step("Decoder", "readStringLength", <<>>, Decoder_readStringLength(buf, pos))
DecoderReadBinLength == Step("Decoder", "readBinLength", <<>>, Decoder_readBinLength(buf, pos))
DecoderReadByteArray == Step("Decoder", "readByteArray", <<>>, Decoder_readByteArray(buf, pos))
DecoderReadArraySize == Step("Decoder", "readArraySize", <<>>, Decoder_readArraySize(buf, pos))
DecoderReadMapSize == Step("Decoder", "readMapSize", <<>>, Decoder_readMapSize(buf, pos))
DecoderGetSize == Step("Decoder", "getSize", <<>>, Decoder_getSize(buf, pos))
DecoderSkip == Step("Decoder", "skip", <<>>, Decoder_skip(buf, pos))
DecoderReadArray ==
  \E fn \in ElementFns :
    Step("Decoder", "readArray", <<fn>>, Decoder_readArray(buf, pos, Decoder_Fn(fn, buf)))
DecoderReadNullableArray ==
  \E fn \in ElementFns :
    Step("Decoder", "readNullableArray", <<fn>>, Decoder_readNullableArray(buf, pos, Decoder_Fn(fn, buf)))
DecoderReadMap ==
  \E keyFn \in KeyFns, valueFn \in ValueFns :
    Step("Decoder", "readMap", <<keyFn, valueFn>>,
         Decoder_readMap(buf, pos, Decoder_Fn(keyFn, buf), Decoder_Fn(valueFn, buf)))
DecoderReadNullableMap ==
  \E keyFn \in KeyFns, valueFn \in ValueFns :
    Step("Decoder", "readNullableMap", <<keyFn, valueFn>>,
         Decoder_readNullableMap(buf, pos, Decoder_Fn(keyFn, buf), Decoder_Fn(valueFn, buf)))

DecoderNext ==
  \/ DecoderIsNextNil \/ DecoderReadBool
  \/ DecoderReadInt8 \/ DecoderReadInt16 \/ DecoderReadInt32 \/ DecoderReadInt64
  \/ DecoderReadUInt8 \/ DecoderReadUInt16 \/ DecoderReadUInt32 \/ DecoderReadUInt64
  \/ DecoderReadFloat32 \/ DecoderReadFloat64
  \/ DecoderReadString \/ DecoderReadStringLength
  \/ DecoderReadBinLength \/ DecoderReadByteArray
  \/ DecoderReadArraySize \/ DecoderReadMapSize
  \/ DecoderGetSize \/ DecoderSkip
  \/ DecoderReadArray \/ DecoderReadNullableArray
  \/ DecoderReadMap \/ DecoderReadNullableMap

Spec == Init /\ [][SafeDecoderNext]_vars

\* the same with the facade: new Decoder(buffer)
DecoderInit ==
  /\ buf \in Buffers
  /\ pos = 0
  /\ halted = FALSE
  /\ api = "Decoder"
  /\ last = [op |-> "new", fns |-> <<>>, start |-> 0, res |-> Ok(0, "void")]

DecoderSpec == DecoderInit /\ [][DecoderNext]_vars

(***************************************************************************)
(* The tag classifiers on their own: any classifier, called with any byte. *)
(***************************************************************************)
TagInit ==
  /\ buf = <<>>
  /\ pos = 0
  /\ halted = FALSE
  /\ api = "SafeDecoder"
  /\ last = [op |-> "new", fns |-> <<>>, start |-> 0, res |-> Ok(0, "void")]

\* a classifier call: the cursor is not touched
Classify(op, u, v) ==
  /\ last' = [op |-> op, fns |-> <<>>, start |-> pos, res |-> Ok(pos, v), u |-> u]
  /\ UNCHANGED <<buf, pos, halted, api>>

IsFloat32 == \E u \in Byte : Classify("isFloat32", u, isFloat32(u))
IsFloat64 == \E u \in Byte : Classify("isFloat64", u, isFloat64(u))
IsFixedInt == \E u \in Byte : Classify("isFixedInt", u, isFixedInt(u))
IsNegativeFixedInt == \E u \in Byte : Classify("isNegativeFixedInt", u, isNegativeFixedInt(u))
IsFixedMap == \E u \in Byte : Classify("isFixedMap", u, isFixedMap(u))
IsFixedArray == \E u \in Byte : Classify("isFixedArray", u, isFixedArray(u))
IsFixedString == \E u \in Byte : Classify("isFixedString", u, isFixedString(u))
IsNil == \E u \in Byte : Classify("isNil", u, isNil(u))

TagNext ==
  \/ IsFloat32 \/ IsFloat64 \/ IsFixedInt \/ IsNegativeFixedInt
  \/ IsFixedMap \/ IsFixedArray \/ IsFixedString \/ IsNil

TagSpec == TagInit /\ [][TagNext]_vars

(***************************************************************************)
(* What the properties below read off an error and off the buffer.         *)
(***************************************************************************)
\* the kind of an error, from the head of its message
ErrorKind(e) ==
  CASE e.msg \in {"bad value for bool", "bad prefix for int",
                  "bad prefix for unsigned int", "bad prefix for float"} -> "BadTag"
    [] e.msg \in {"integer overflow", "unsigned integer overflow"} -> "IntegerOverflow"
    [] e.msg = "integer underflow" -> "IntegerUnderflow"
    [] e.msg = "float overflow" -> "FloatOverflow"
    [] e.msg = E_INVALIDLENGTH -> "InvalidLength"
    [] OTHER -> "Other"

\* the outcome is a failure of this kind
FailsWith(r, kind) == r.st = "err" /\ ErrorKind(r.err) = kind

\* the tag the last operation started at, when there was one
HasTag == last.start < Len(buf)
TagAtStart == buf[last.start + 1]

\* the w payload bytes after that tag, when the buffer holds them
HasPayload(w) == last.start + 1 + w <= Len(buf)
PayloadAtStart(w) == SubSeq(buf, last.start + 2, last.start + 1 + w)

\* the payload width of a uint8..uint64 or int8..int64 tag
IntTagWidth(tag) == 2 ^ ((tag - Format.UINT8) % 4)

(***************************************************************************)
(* C10.  Each classifier is true exactly on its range of bytes: isFixedInt *)
(* on 0x00..0x7f, isFixedMap on 0x80..0x8f, isFixedArray on 0x90..0x9f,    *)
(* isFixedString on 0xa0..0xbf, isNegativeFixedInt on 0xe0..0xff, isNil on *)
(* 0xc0 alone; no byte satisfies two of them, and none of them holds for   *)
(* an explicit tag 0xc1..0xdf.                                             *)
(***************************************************************************)
FamilyClassifiers ==
  {"isFixedInt", "isNegativeFixedInt", "isFixedMap", "isFixedArray", "isFixedString", "isNil"}

\* what classifier op answers for byte u
Classifies(op, u) ==
  CASE op = "isFixedInt" -> isFixedInt(u)
    [] op = "isNegativeFixedInt" -> isNegativeFixedInt(u)
    [] op = "isFixedMap" -> isFixedMap(u)
    [] op = "isFixedArray" -> isFixedArray(u)
    [] op = "isFixedString" -> isFixedString(u)
    [] op = "isNil" -> isNil(u)

C10_ClassifierRanges ==
  last.op \in FamilyClassifiers =>
    LET u == last.u
        answer == last.res.value
    IN  /\ last.op = "isFixedInt" => (answer <=> u <= 127)
        /\ last.op = "isFixedMap" => (answer <=> (128 <= u /\ u <= 143))
        /\ last.op = "isFixedArray" => (answer <=> (144 <= u /\ u <= 159))
        /\ last.op = "isFixedString" => (answer <=> (160 <= u /\ u <= 191))
        /\ last.op = "isNegativeFixedInt" => (answer <=> u >= 224)
        /\ last.op = "isNil" => (answer <=> u = 192)
        /\ answer => \A other \in FamilyClassifiers \ {last.op} : ~Classifies(other, u)
        /\ (193 <= u /\ u <= 223) => ~answer

C10_Witness ==
  /\ last.op = "isFixedString"
  /\ last.u = 191
  /\ last.res.value = TRUE

(***************************************************************************)
(* C1.  Skip correctness: wherever a full decode of the value at the       *)
(* cursor with the matching read operations succeeds, skip succeeds and    *)
(* leaves the cursor where that decode leaves it; and on a buffer that is  *)
(* one complete encoded value, skip from the start ends at the end of the  *)
(* buffer.                                                                 *)
(***************************************************************************)
C1_SkipMatchesDecode ==
  last.op = "skip" =>
    /\ readAny(buf, last.start).st = "ok" =>
         /\ last.res.st = "ok"
         /\ last.res.pos = readAny(buf, last.start).pos
         /\ pos = last.res.pos
    /\ (last.start = 0 /\ buf \in EncodedValues) =>
         /\ last.res.st = "ok"
         /\ pos = Len(buf)

C1_Witness ==
  /\ last.op = "skip"
  /\ last.start = 0
  /\ buf = Nested(MaxDepth, "mixed")
  /\ readAny(buf, 0) = Ok(Len(buf), "any")
  /\ last.res.st = "ok"
  /\ pos = Len(buf)

(***************************************************************************)
(* C2.  isNextNil with a byte at the cursor: on the nil tag it returns     *)
(* true and the cursor advances by one; on any other byte it returns false *)
(* and the cursor stays where it was.                                      *)
(***************************************************************************)
C2_IsNextNilPeeks ==
  (last.op = "isNextNil" /\ HasTag) =>
    IF TagAtStart = 192
      THEN last.res = Ok(last.start + 1, TRUE) /\ pos = last.start + 1
      ELSE last.res = Ok(last.start, FALSE) /\ pos = last.start

C2_Witness ==
  /\ last.op = "isNextNil"
  /\ last.start > 0
  /\ HasTag
  /\ TagAtStart # 192
  /\ last.res.value = FALSE
  /\ pos = last.start

(***************************************************************************)
(* C3.  Every narrower integer reader returns Success(v) exactly when its  *)
(* canonical 64-bit reader succeeds with v inside the target type's range; *)
(* otherwise it returns a failure: IntegerOverflow for a value above the   *)
(* maximum, IntegerUnderflow for a value below the minimum or a negative   *)
(* value read into an unsigned target, the error carrying the decoded      *)
(* value and the target bit-width.                                         *)
(***************************************************************************)
SignedNarrowOps == {"readInt8", "readInt16", "readInt32"}
UnsignedNarrowOps == {"readUInt8", "readUInt16", "readUInt32"}

\* the bit-width of the type a narrow reader returns
TargetBits(op) ==
  CASE op \in {"readInt8", "readUInt8"} -> 8
    [] op \in {"readInt16", "readUInt16"} -> 16
    [] op \in {"readInt32", "readUInt32"} -> 32

\* how a message states a bit-width
BitsDetail(bits) ==
  CASE bits = 8 -> "bits = 8" [] bits = 16 -> "bits = 16" [] bits = 32 -> "bits = 32"

\* a 64-bit value fits the narrow type when the narrowing cast loses nothing
FitsSigned(v, bits) == SignExtend(Truncate(v, bits \div 8), 8) = v
FitsUnsigned(v, bits) == ZeroExtend(Truncate(v, bits \div 8), 8) = v

\* the error names the kind, the decoded value and the target bit-width
CarriesRange(r, kind, v, bits) ==
  /\ FailsWith(r, kind)
  /\ "value" \in DOMAIN r.err
  /\ r.err.value = v
  /\ r.err.detail = BitsDetail(bits)

C3_NarrowReaders ==
  /\ last.op \in SignedNarrowOps =>
       LET canon == readInt64(buf, last.start)
           bits == TargetBits(last.op)
           r == last.res
       IN  /\ r.st = "ok" <=> (canon.st = "ok" /\ FitsSigned(canon.value, bits))
           /\ r.st = "ok" => SignExtend(r.value, 8) = canon.value /\ r.pos = canon.pos
           /\ (r.st # "ok" /\ canon.st # "throw") => r.st = "err"
           /\ (canon.st = "ok" /\ ~FitsSigned(canon.value, bits) /\ canon.value[1] < 128)
                => CarriesRange(r, "IntegerOverflow", canon.value, bits)
           /\ (canon.st = "ok" /\ ~FitsSigned(canon.value, bits) /\ canon.value[1] >= 128)
                => CarriesRange(r, "IntegerUnderflow", canon.value, bits)
  /\ last.op \in UnsignedNarrowOps =>
       LET canon == readUInt64(buf, last.start)
           bits == TargetBits(last.op)
           r == last.res
       IN  /\ r.st = "ok" <=> (canon.st = "ok" /\ FitsUnsigned(canon.value, bits))
           /\ r.st = "ok" => ZeroExtend(r.value, 8) = canon.value /\ r.pos = canon.pos
           /\ (r.st # "ok" /\ canon.st # "throw") => r.st = "err"
           /\ (canon.st = "ok" /\ ~FitsUnsigned(canon.value, bits))
                => CarriesRange(r, "IntegerOverflow", canon.value, bits)
           /\ (/\ HasTag
               /\ TagAtStart \in {Format.INT8, Format.INT16, Format.INT32, Format.INT64}
               /\ HasPayload(IntTagWidth(TagAtStart))
               /\ PayloadAtStart(IntTagWidth(TagAtStart))[1] >= 128)
                => CarriesRange(r, "IntegerUnderflow",
                                SignExtend(PayloadAtStart(IntTagWidth(TagAtStart)), 8), bits)

(***************************************************************************)
(* C4.  readUInt64 succeeds exactly for a fixint tag (the byte), a         *)
(* uint8/16/32/64 tag (the big-endian payload) and an int8/16/32/64 tag    *)
(* whose payload is not negative; a negative payload is IntegerUnderflow,  *)
(* a negative fixint and every other tag are BadTag.                       *)
(***************************************************************************)
C4_ReadUInt64 ==
  (last.op = "readUInt64" /\ HasTag) =>
    LET tag == TagAtStart
        w == IntTagWidth(tag)
        r == last.res
    IN  IF tag <= 127 THEN r = Ok(last.start + 1, Rep(0, 7) \o <<tag>>)
        ELSE IF tag \in {Format.UINT8, Format.UINT16, Format.UINT32, Format.UINT64} /\ HasPayload(w)
          THEN r = Ok(last.start + 1 + w, Rep(0, 8 - w) \o PayloadAtStart(w))
        ELSE IF tag \in {Format.INT8, Format.INT16, Format.INT32, Format.INT64} /\ HasPayload(w)
          THEN IF PayloadAtStart(w)[1] < 128
                 THEN r = Ok(last.start + 1 + w, Rep(0, 8 - w) \o PayloadAtStart(w))
                 ELSE FailsWith(r, "IntegerUnderflow")
        ELSE IF tag \in (Format.UINT8)..(Format.INT64) THEN r.st = "throw"
        ELSE FailsWith(r, "BadTag")

C4_Witness ==
  /\ last.op = "readUInt64"
  /\ HasTag
  /\ TagAtStart = Format.INT64
  /\ HasPayload(8)
  /\ FailsWith(last.res, "IntegerUnderflow")

(***************************************************************************)
(* C5.  readInt64 succeeds exactly for fixint (the byte), negative fixint  *)
(* (the byte as a signed 8-bit value), int8/16/32/64 (the two's complement *)
(* payload) and uint8/16/32/64 (the payload) tags, except that a uint64    *)
(* payload above 2^63-1 is an IntegerOverflow failure and is never         *)
(* returned wrapped; every other tag is BadTag.                            *)
(***************************************************************************)
C5_ReadInt64 ==
  (last.op = "readInt64" /\ HasTag) =>
    LET tag == TagAtStart
        w == IntTagWidth(tag)
        r == last.res
    IN  IF tag <= 127 THEN r = Ok(last.start + 1, Rep(0, 7) \o <<tag>>)
        ELSE IF tag >= 224 THEN r = Ok(last.start + 1, Rep(255, 7) \o <<tag>>)
        ELSE IF tag \in {Format.INT8, Format.INT16, Format.INT32, Format.INT64} /\ HasPayload(w)
          THEN r = Ok(last.start + 1 + w,
                      Rep(IF PayloadAtStart(w)[1] >= 128 THEN 255 ELSE 0, 8 - w)
                        \o PayloadAtStart(w))
        ELSE IF tag \in {Format.UINT8, Format.UINT16, Format.UINT32} /\ HasPayload(w)
          THEN r = Ok(last.start + 1 + w, Rep(0, 8 - w) \o PayloadAtStart(w))
        ELSE IF tag = Format.UINT64 /\ HasPayload(8)
          THEN IF PayloadAtStart(8)[1] < 128
                 THEN r = Ok(last.start + 9, PayloadAtStart(8))
                 ELSE FailsWith(r, "IntegerOverflow")
        ELSE IF tag \in (Format.UINT8)..(Format.INT64) THEN r.st = "throw"
        ELSE FailsWith(r, "BadTag")

C5_Witness ==
  /\ last.op = "readInt64"
  /\ HasTag
  /\ TagAtStart = Format.UINT64
  /\ HasPayload(8)
  /\ PayloadAtStart(8)[1] >= 128
  /\ FailsWith(last.res, "IntegerOverflow")

(***************************************************************************)
(* What the container properties read off the log of calls.                *)
(***************************************************************************)
\* the result carries no array or map
NoValue(r) == "value" \notin DOMAIN r

\* r is the failure f, handed on as it is
SameFailure(r, f) == r.st = f.st /\ r.st # "ok" /\ r.err = f.err /\ r.pos = f.pos /\ NoValue(r)

(***************************************************************************)
(* C6.  readArray(fn) resolves the size N, then calls fn once per element  *)
(* for the indices 0, 1, ..., N-1 in increasing order, passing the index,  *)
(* each call starting where the one before ended, and returns the N        *)
(* results in that order; when the call for index k fails, readArray       *)
(* returns that same failure, fn is not called for any later index and no  *)
(* partly built array is returned.                                         *)
(***************************************************************************)
C6_ReadArray ==
  last.op = "readArray" =>
    LET size == readArraySize(buf, last.start)
        fn == Fn(last.fns[1], buf)
        r == last.res
        calls == r.calls
        n == Len(calls)
    IN  /\ size.st # "ok" => calls = <<>> /\ SameFailure(r, size)
        /\ size.st = "ok" =>
             /\ n <= size.value
             /\ \A k \in 1..n : calls[k].fn = fn.name /\ calls[k].args = <<k - 1>>
             /\ n > 0 => calls[1].at = size.pos
             /\ \A k \in 2..n :
                  /\ fn.run[calls[k - 1].at].st = "ok"
                  /\ calls[k].at = fn.run[calls[k - 1].at].pos
             /\ r.st = "ok" <=>
                  (n = size.value /\ \A k \in 1..n : fn.run[calls[k].at].st = "ok")
             /\ r.st = "ok" =>
                  /\ r.value = [k \in 1..n |-> fn.run[calls[k].at].value]
                  /\ r.pos = (IF n = 0 THEN size.pos ELSE fn.run[calls[n].at].pos)
             /\ r.st # "ok" => n >= 1 /\ SameFailure(r, fn.run[calls[n].at])

\* the call for index 0 of a two-element array fails: index 1 is never decoded
C6_Witness ==
  /\ last.op = "readArray"
  /\ readArraySize(buf, last.start).st = "ok"
  /\ readArraySize(buf, last.start).value = 2
  /\ last.res.st = "err"
  /\ Len(last.res.calls) = 1
  /\ last.res.calls[1].args = <<0>>

(***************************************************************************)
(* C7.  readMap(keyFn, valueFn) resolves the size N and, for each pair i   *)
(* in 0..N-1 in order, decodes the key and then the value; the map         *)
(* returned holds, for every distinct key, the value of the last pair with *)
(* that key, so it has at most N entries; the first key or value failure   *)
(* is returned at once and no later pair is decoded.                       *)
(***************************************************************************)
C7_ReadMap ==
  last.op = "readMap" =>
    LET size == readMapSize(buf, last.start)
        keyFn == Fn(last.fns[1], buf)
        valueFn == Fn(last.fns[2], buf)
        r == last.res
        calls == r.calls
        n == Len(calls)
        Called(k) == IF k % 2 = 1 THEN keyFn ELSE valueFn
        Out(k) == Called(k).run[calls[k].at]
        LastPair(key) ==
          CHOOSE i \in 1..size.value :
            /\ Out(2 * i - 1).value = key
            /\ \A j \in (i + 1)..size.value : Out(2 * j - 1).value # key
    IN  /\ size.st # "ok" => calls = <<>> /\ SameFailure(r, size)
        /\ size.st = "ok" =>
             /\ n <= 2 * size.value
             /\ \A k \in 1..n :
                  calls[k].fn = Called(k).name /\ calls[k].args = <<(k - 1) \div 2>>
             /\ n > 0 => calls[1].at = size.pos
             /\ \A k \in 2..n : Out(k - 1).st = "ok" /\ calls[k].at = Out(k - 1).pos
             /\ r.st = "ok" <=> (n = 2 * size.value /\ \A k \in 1..n : Out(k).st = "ok")
             /\ r.st = "ok" =>
                  /\ r.pos = (IF n = 0 THEN size.pos ELSE Out(n).pos)
                  /\ Len(r.value) <= size.value
                  /\ \A x, y \in 1..Len(r.value) : x # y => r.value[x][1] # r.value[y][1]
                  /\ {r.value[x][1] : x \in 1..Len(r.value)}
                       = {Out(2 * i - 1).value : i \in 1..size.value}
                  /\ \A x \in 1..Len(r.value) :
                       r.value[x][2] = Out(2 * LastPair(r.value[x][1])).value
             /\ r.st # "ok" => n >= 1 /\ SameFailure(r, Out(n))

\* two pairs with the same key and different values: one entry, the second value
C7_Witness ==
  /\ last.op = "readMap"
  /\ last.res.st = "ok"
  /\ Len(last.res.calls) = 4
  /\ Len(last.res.value) = 1
  /\ buf[last.res.calls[2].at + 1] # buf[last.res.calls[4].at + 1]

(***************************************************************************)
(* C8.  On a nil tag readArraySize and readBinLength return Success(0),    *)
(* each consuming exactly the nil byte, whereas readMapSize returns an     *)
(* InvalidLength failure; readMapSize succeeds only for a fixmap tag (the  *)
(* low 4 bits), map16 and map32.                                           *)
(***************************************************************************)
C8_NilLengths ==
  /\ (last.op \in {"readArraySize", "readBinLength"} /\ HasTag /\ TagAtStart = Format.NIL)
       => last.res = Ok(last.start + 1, 0)
  /\ (last.op = "readMapSize" /\ HasTag /\ TagAtStart = Format.NIL)
       => FailsWith(last.res, "InvalidLength")
  /\ (last.op = "readMapSize" /\ last.res.st = "ok") =>
       /\ HasTag
       /\ \/ /\ TagAtStart \in 128..143
             /\ last.res = Ok(last.start + 1, TagAtStart % 16)
          \/ /\ TagAtStart = Format.MAP16
             /\ HasPayload(2)
             /\ last.res = Ok(last.start + 3, BigEndian(PayloadAtStart(2)))
          \/ /\ TagAtStart = Format.MAP32
             /\ HasPayload(4)
             /\ last.res = Ok(last.start + 5, BigEndian(PayloadAtStart(4)))
  /\ (last.op = "readMapSize" /\ HasTag /\ TagAtStart \in 128..143) => last.res.st = "ok"
  /\ (last.op = "readMapSize" /\ HasTag /\ TagAtStart \in {Format.MAP16, Format.MAP32}
        /\ HasPayload(IF TagAtStart = Format.MAP16 THEN 2 ELSE 4)) => last.res.st = "ok"

C8_Witness ==
  /\ last.op = "readMapSize"
  /\ HasTag
  /\ TagAtStart = Format.NIL
  /\ FailsWith(last.res, "InvalidLength")
  /\ readArraySize(buf, last.start) = Ok(last.start + 1, 0)

(***************************************************************************)
(* C9.  The Decoder mirrors every SafeDecoder operation: where the         *)
(* SafeDecoder operation succeeds, the Decoder operation returns the same  *)
(* value and leaves the cursor at the same position, and readArray and     *)
(* readMap call the caller's functions the same number of times, in the    *)
(* same order and with the same index argument; where the SafeDecoder      *)
(* operation fails, the Decoder operation aborts and returns no value.     *)
(***************************************************************************)
\* what the SafeDecoder's operation does from the same cursor
SafeOutcome(op, fns, b, p) ==
  CASE op = "isNextNil" -> isNextNil(b, p)
    [] op = "readBool" -> readBool(b, p)
    [] op = "readInt8" -> readInt8(b, p)
    [] op = "readInt16" -> readInt16(b, p)
    [] op = "readInt32" -> readInt32(b, p)
    [] op = "readInt64" -> readInt64(b, p)
    [] op = "readUInt8" -> readUInt8(b, p)
    [] op = "readUInt16" -> readUInt16(b, p)
    [] op = "readUInt32" -> readUInt32(b, p)
    [] op = "readUInt64" -> readUInt64(b, p)
    [] op = "readFloat32" -> readFloat32(b, p)
    [] op = "readFloat64" -> readFloat64(b, p)
    [] op = "readString" -> readString(b, p)
    [] op = "readStringLength" -> readStringLength(b, p)
    [] op = "readBinLength" -> readBinLength(b, p)
    [] op = "readByteArray" -> readByteArray(b, p)
    [] op = "readArraySize" -> readArraySize(b, p)
    [] op = "readMapSize" -> readMapSize(b, p)
    [] op = "getSize" -> getSize(b, p)
    [] op = "skip" -> skip(b, p)
    [] op = "readArray" -> readArray(b, p, Fn(fns[1], b))
    [] op = "readNullableArray" -> readNullableArray(b, p, Fn(fns[1], b))
    [] op = "readMap" -> readMap(b, p, Fn(fns[1], b), Fn(fns[2], b))
    [] op = "readNullableMap" -> readNullableMap(b, p, Fn(fns[1], b), Fn(fns[2], b))

C9_FacadeMirrors ==
  (api = "Decoder" /\ last.op # "new") =>
    LET safe == SafeOutcome(last.op, last.fns, buf, last.start)
        r == last.res
    IN  /\ safe.st = "ok" =>
             /\ r.st = "ok"
             /\ r.value = safe.value
             /\ r.pos = safe.pos
             /\ "calls" \in DOMAIN safe => r.calls = safe.calls
        /\ safe.st = "err" => r.st = "throw" /\ NoValue(r)

(***************************************************************************)
(* The structural skip on its own, over the buffers above and over         *)
(* container headers that declare the largest counts a header can hold.    *)
(***************************************************************************)
\* array32 and map32 headers around the bounds of i32, with no children
CountBuffers ==
  {<<tag>> \o count : tag \in {Format.ARRAY32, Format.MAP32},
                      count \in {<<0, 0, 1, 0>>, <<63, 255, 255, 255>>, <<64, 0, 0, 0>>,
                                 <<127, 255, 255, 255>>, <<128, 0, 0, 0>>,
                                 <<255, 255, 255, 255>>}}
    \cup {<<tag, 255, 255>> : tag \in {Format.ARRAY16, Format.MAP16}}

SizeInit ==
  /\ buf \in Buffers \cup CountBuffers
  /\ pos = 0
  /\ halted = FALSE
  /\ api = "SafeDecoder"
  /\ last = [op |-> "new", fns |-> <<>>, start |-> 0, res |-> Ok(0, "void")]

SizeNext == GetSize \/ Skip

SizeSpec == SizeInit /\ [][SizeNext]_vars

(***************************************************************************)
(* C11.  getSize consumes the tag and returns the number of child objects  *)
(* still to skip: 0 for every scalar, string, binary and fixext tag, after *)
(* discarding the tag's own length prefix and payload (1/2/4/8 bytes for   *)
(* sized ints and floats, 2/3/5/9/17 for fixext1/2/4/8/16, the declared    *)
(* length for str and bin); exactly N for a fixarray, array16 or array32   *)
(* of N elements and exactly 2N for a fixmap, map16 or map32 of N pairs,   *)
(* consuming the tag and the length prefix alone; it handles every tag of  *)
(* the format, and only a byte that is no tag of the format raises the     *)
(* fatal error.                                                            *)
(***************************************************************************)
\* the tag bytes the format's table does not name
NotInFormat == {193, 199, 200, 201}

\* the payload width of a tag whose payload has a fixed width
FixedPayload(tag) ==
  CASE tag \in {Format.UINT8, Format.INT8} -> 1
    [] tag \in {Format.UINT16, Format.INT16} -> 2
    [] tag \in {Format.UINT32, Format.INT32, Format.FLOAT32} -> 4
    [] tag \in {Format.UINT64, Format.INT64, Format.FLOAT64} -> 8
    [] tag = Format.FIXEXT1 -> 2
    [] tag = Format.FIXEXT2 -> 3
    [] tag = Format.FIXEXT4 -> 5
    [] tag = Format.FIXEXT8 -> 9
    [] tag = Format.FIXEXT16 -> 17

\* the width of the length prefix of a str, bin, array or map tag
PrefixWidth(tag) ==
  CASE tag \in {Format.BIN8, Format.STR8} -> 1
    [] tag \in {Format.BIN16, Format.STR16, Format.ARRAY16, Format.MAP16} -> 2
    [] tag \in {Format.BIN32, Format.STR32, Format.ARRAY32, Format.MAP32} -> 4

\* the four bytes of a count
CountBytes(n) == <<n \div 16777216, (n \div 65536) % 256, (n \div 256) % 256, n % 256>>

\* the outcome is Success(n) at cursor p, n being the count these bytes declare
ReturnsCount(r, p, declared) ==
  /\ r.st = "ok"
  /\ r.pos = p
  /\ r.value >= 0
  /\ CountBytes(r.value) = ZeroExtend(declared, 4)

\* the same for twice the count
ReturnsTwiceCount(r, p, declared) ==
  /\ r.st = "ok"
  /\ r.pos = p
  /\ r.value >= 0
  /\ r.value % 2 = 0
  /\ CountBytes(r.value \div 2) = ZeroExtend(declared, 4)

C11_GetSize ==
  (last.op = "getSize" /\ HasTag) =>
    LET tag == TagAtStart
        s == last.start
        r == last.res
    IN  /\ (r.st = "throw" /\ r.err.cls = "TypeError") <=> tag \in NotInFormat
        /\ (tag <= 127 \/ tag >= 224 \/ tag \in {Format.NIL, FormatTRUE, FormatFALSE})
             => r = Ok(s + 1, 0)
        /\ (tag \in 160..191 /\ HasPayload(tag - 160)) => r = Ok(s + 1 + (tag - 160), 0)
        /\ tag \in 144..159 => r = Ok(s + 1, tag - 144)
        /\ tag \in 128..143 => r = Ok(s + 1, 2 * (tag - 128))
        /\ (tag \in (Format.FLOAT32)..(Format.FIXEXT16) /\ HasPayload(FixedPayload(tag)))
             => r = Ok(s + 1 + FixedPayload(tag), 0)
        /\ (/\ tag \in {Format.BIN8, Format.BIN16, Format.BIN32,
                        Format.STR8, Format.STR16, Format.STR32}
            /\ HasPayload(PrefixWidth(tag))
            /\ PayloadAtStart(PrefixWidth(tag))[1] < 128
            /\ HasPayload(PrefixWidth(tag) + BigEndian(PayloadAtStart(PrefixWidth(tag)))))
             => r = Ok(s + 1 + PrefixWidth(tag) + BigEndian(PayloadAtStart(PrefixWidth(tag))), 0)
        /\ (tag \in {Format.ARRAY16, Format.ARRAY32} /\ HasPayload(PrefixWidth(tag)))
             => ReturnsCount(r, s + 1 + PrefixWidth(tag), PayloadAtStart(PrefixWidth(tag)))
        /\ (tag \in {Format.MAP16, Format.MAP32} /\ HasPayload(PrefixWidth(tag)))
             => ReturnsTwiceCount(r, s + 1 + PrefixWidth(tag), PayloadAtStart(PrefixWidth(tag)))

(***************************************************************************)
(* C12.  A failed SafeDecoder read does not restore the cursor.  Whenever  *)
(* readBool, readInt64, readUInt64, readFloat32, readFloat64,              *)
(* readStringLength, readBinLength, readArraySize or readMapSize returns a *)
(* BadTag or InvalidLength failure, the cursor has advanced by exactly 1   *)
(* (the rejected tag byte is consumed); whenever an integer reader fails   *)
(* with Overflow or Underflow, the cursor has advanced past the tag and    *)
(* its whole payload.  Hence after any failed read the next operation      *)
(* starts at a later position, never at the rejected tag again.            *)
(***************************************************************************)
TagReaders ==
  {"readBool", "readInt64", "readUInt64", "readFloat32", "readFloat64",
   "readStringLength", "readBinLength", "readArraySize", "readMapSize"}

IntegerReaders == {"readInt64", "readUInt64"} \cup SignedNarrowOps \cup UnsignedNarrowOps

\* the bytes an integer's encoding takes after its tag: none for a fixint
IntegerPayload(tag) ==
  IF tag \in (Format.UINT8)..(Format.INT64) THEN IntTagWidth(tag) ELSE 0

C12_FailedReadAdvances ==
  (api = "SafeDecoder" /\ last.res.st = "err") =>
    LET kind == ErrorKind(last.res.err)
    IN  /\ pos = last.res.pos
        /\ pos > last.start
        /\ (last.op \in TagReaders /\ kind \in {"BadTag", "InvalidLength"})
             => pos = last.start + 1
        /\ (last.op \in IntegerReaders /\ kind \in {"IntegerOverflow", "IntegerUnderflow"})
             => pos = last.start + 1 + IntegerPayload(TagAtStart)

C12_Witness ==
  /\ last.op = "readBool"
  /\ FailsWith(last.res, "BadTag")
  /\ last.start > 0
  /\ TagAtStart = Format.NIL
  /\ pos = last.start + 1

====
